---- MODULE Spec2Model ----
(***************************************************************************)
(* Model of the pyqrcode facade (class QRCode of pyqrcode/__init__.py):    *)
(* construction (content coercion, error-level validation, content-type    *)
(* detection, mode validation, version selection, user-version validation, *)
(* the call of the builder) and text().                                    *)
(*                                                                         *)
(* Python strings are sequences of one-character strings, so that          *)
(* str.upper(), str.lower() and str.encode('ascii') are computed.          *)
(* An optional argument is <<>> for None and <<x>> for the value x.        *)
(* The modules pyqrcode.tables and pyqrcode.builder are not part of the    *)
(* source tree; what the facade uses of them is modelled from the          *)
(* specification.  The capacity table keeps the shape of the real one      *)
(* (growing with the version, shrinking with the error level and from      *)
(* numeric to kanji) at a scale at which short contents reach every case.  *)
(***************************************************************************)
EXTENDS Integers, Sequences, FiniteSets, TLC

\* -------------------------------------------------------------- bounds
\* Longest textual content drawn as an input.
MaxLen == 3

\* ------------------------------------------------------ Python strings
Digits == <<"0", "1", "2", "3", "4", "5", "6", "7", "8", "9">>

LowerLetters == <<"a", "b", "c", "d", "e", "f", "g", "h", "i", "j", "k", "l", "m",
                  "n", "o", "p", "q", "r", "s", "t", "u", "v", "w", "x", "y", "z">>

UpperLetters == <<"A", "B", "C", "D", "E", "F", "G", "H", "I", "J", "K", "L", "M",
                  "N", "O", "P", "Q", "R", "S", "T", "U", "V", "W", "X", "Y", "Z">>

Range(s) == {s[i] : i \in DOMAIN s}

\* The characters of the model that have an ASCII code point.
AsciiChars ==
    Range(Digits) \cup Range(LowerLetters) \cup Range(UpperLetters)
        \cup {" ", "$", "%", "*", "+", "-", ".", "/", ":", "#", "!"}

\* str.upper() on one character.
UpperChar(c) ==
    IF c \in Range(LowerLetters)
    THEN UpperLetters[CHOOSE i \in DOMAIN LowerLetters : LowerLetters[i] = c]
    ELSE IF c = "é" THEN "É" ELSE c

\* str.lower() on one character.
LowerChar(c) ==
    IF c \in Range(UpperLetters)
    THEN LowerLetters[CHOOSE i \in DOMAIN UpperLetters : UpperLetters[i] = c]
    ELSE IF c = "É" THEN "é" ELSE c

upper(s) == [i \in DOMAIN s |-> UpperChar(s[i])]

lower(s) == [i \in DOMAIN s |-> LowerChar(s[i])]

\* str(n) of a non-negative integer: its decimal digits.
RECURSIVE IntToStr(_)
IntToStr(n) ==
    IF n < 10 THEN <<Digits[n + 1]>>
    ELSE Append(IntToStr(n \div 10), Digits[(n % 10) + 1])

\* str(content): a text is itself, an integer is its decimal representation.
str(c) == IF c.kind = "int" THEN IntToStr(c.int) ELSE c.text

\* s.encode('ascii'): one byte per character, UnicodeEncodeError when a
\* character has no ASCII code point.
encode_ascii(s) ==
    IF \A i \in DOMAIN s : s[i] \in AsciiChars
    THEN [ok |-> TRUE, bytes |-> s]
    ELSE [ok |-> FALSE, bytes |-> <<>>]

\* Python truthiness of an optional string argument (None and '' are false).
TruthyStr(opt) == opt # <<>> /\ opt[1] # <<>>

\* Python truthiness of an optional integer argument (None and 0 are false).
TruthyInt(opt) == opt # <<>> /\ opt[1] # 0

\* The mode names.
NUMERIC == <<"n", "u", "m", "e", "r", "i", "c">>

ALPHANUMERIC == <<"a", "l", "p", "h", "a", "n", "u", "m", "e", "r", "i", "c">>

BINARY == <<"b", "i", "n", "a", "r", "y">>

KANJI == <<"k", "a", "n", "j", "i">>

\* ------------------------------------------------------ pyqrcode.tables
\* tables.error_level: the string keys of the error levels.
error_level ==
    (<<"L">> :> "L") @@ (<<"M">> :> "M") @@ (<<"Q">> :> "Q") @@ (<<"H">> :> "H")
    @@ (<<"7", "%">> :> "L") @@ (<<"1", "5", "%">> :> "M")
    @@ (<<"2", "5", "%">> :> "Q") @@ (<<"3", "0", "%">> :> "H")

\* tables.modes: mode name -> mode indicator.
modes == (NUMERIC :> 1) @@ (ALPHANUMERIC :> 2) @@ (BINARY :> 4) @@ (KANJI :> 8)

\* tables.ascii_codes.keys(): the characters of the QR alphanumeric table.
ascii_codes_keys ==
    Range(Digits) \cup Range(UpperLetters)
        \cup {" ", "$", "%", "*", "+", "-", ".", "/", ":"}

ErrorWeight == ("L" :> 4) @@ ("M" :> 3) @@ ("Q" :> 2) @@ ("H" :> 1)

ModeWeight == (1 :> 6) @@ (2 :> 4) @@ (4 :> 2) @@ (8 :> 1)

\* tables.data_capacity[version][error][mode_num].
data_capacity(v, e, m) == (v * ErrorWeight[e] * ModeWeight[m]) \div 80

\* ------------------------------------------------------ the facade
\* The last version of the loop of _pick_best_fit, range(1,41).
LastVersion == 40

\* The names bound where _detect_content_type evaluates int(content): its
\* only local and the names the module binds.
DetectScope == {"self", "pyqrcode", "builder", "tables", "QRCode"}

\* Whether a text is accepted by int() as a non-negative integer literal.
IsDigitString(s) == Len(s) > 0 /\ \A i \in DOMAIN s : s[i] \in Range(Digits)

\* The try block of _detect_content_type: int(content) raises NameError
\* when content is not bound, which the bare except swallows.
IntOfContentSucceeds(data) ==
    IF "content" \in DetectScope THEN IsDigitString(data) ELSE FALSE

\* QRCode._detect_content_type.
detect_content_type(data) ==
    IF IntOfContentSucceeds(data) THEN NUMERIC
    ELSE IF \A i \in DOMAIN data : upper(data)[i] \in ascii_codes_keys
         THEN ALPHANUMERIC
         ELSE BINARY

NoExc == [type |-> "none", kind |-> "none", origin |-> "none"]

ValueError(kind) == [type |-> "ValueError", kind |-> kind, origin |-> "facade"]

\* Fits with the capacity compared strictly.
Fits_Strict(capacity, data, mode_num) ==
    IF mode_num = modes[BINARY]
    THEN IF ~encode_ascii(data).ok THEN "raise"
         ELSE IF capacity > Len(encode_ascii(data).bytes) THEN "yes"
         ELSE IF capacity > Len(data) THEN "yes" ELSE "no"
    ELSE IF capacity > Len(data) THEN "yes" ELSE "no"

\* The condition of the if in the loop of _pick_best_fit, with Python's
\* short-circuit evaluation: "raise" when encode('ascii') raises.
Fits(capacity, data, mode_num) ==
    IF mode_num = modes[BINARY]
    THEN IF ~encode_ascii(data).ok THEN "raise"
         ELSE IF capacity >= Len(encode_ascii(data).bytes) THEN "yes"
         ELSE IF capacity >= Len(data) THEN "yes" ELSE "no"
    ELSE IF capacity >= Len(data) THEN "yes" ELSE "no"

\* The loop of QRCode._pick_best_fit from version v on.
RECURSIVE PickFrom(_, _, _, _)
PickFrom(v, data, error, mode_num) ==
    IF v > LastVersion
    THEN [version |-> 0, exc |-> ValueError("ContentTooLarge")]
    ELSE LET f == Fits(data_capacity(v, error, mode_num), data, mode_num)
         IN  IF f = "raise"
             THEN [version |-> 0,
                   exc |-> [type |-> "UnicodeEncodeError", kind |-> "encoding",
                            origin |-> "facade"]]
             ELSE IF f = "yes" THEN [version |-> v, exc |-> NoExc]
             ELSE PickFrom(v + 1, data, error, mode_num)

\* QRCode._pick_best_fit.
pick_best_fit(data, error, mode_num) == PickFrom(1, data, error, mode_num)

\* ------------------------------------------------------ pyqrcode.builder
NoCode == [size |-> 0]

\* builder.QRCodeBuilder(data, version, mode, error): the module matrix, of
\* 17 + 4 * version rows; kanji encoding is unimplemented.
QRCodeBuilder(data, v, m, e) ==
    IF m = KANJI
    THEN [code |-> NoCode,
          exc |-> [type |-> "NotImplementedError", kind |-> "UnimplementedMode",
                   origin |-> "builder"]]
    ELSE [code |-> [size |-> 17 + 4 * v], exc |-> NoExc]

NoText == [rows |-> 0]

\* builder._text(code): one row of '1'/'0' characters per matrix row.
builder_text(code) == [rows |-> code.size]

\* ------------------------------------------------------ inputs
TextChars == {"7", "A", "a", "#", "é"}

Texts == UNION {[1..n -> TextChars] : n \in 0..MaxLen}

Contents ==
    {[kind |-> "str", text |-> t, int |-> 0] : t \in Texts}
        \cup {[kind |-> "int", text |-> <<>>, int |-> n] : n \in {0, 12, 345}}

ErrorArgs == {<<"L">>, <<"q">>, <<"H">>, <<"X">>}

VersionArgs == {<<>>, <<-1>>, <<0>>, <<1>>, <<10>>, <<40>>, <<41>>}

ModeArgs ==
    {<<>>, <<<<>>>>, <<NUMERIC>>, <<upper(ALPHANUMERIC)>>, <<BINARY>>, <<KANJI>>,
     <<<<"K", "a", "n", "j", "i">>>>, <<<<"f", "o", "o">>>>}

\* ------------------------------------------------------ state
VARIABLES
    pc,           \* position in __init__ / text
    content,      \* argument content
    argError,     \* argument error
    argVersion,   \* argument version
    argMode,      \* argument mode
    data,         \* self.data
    error,        \* self.error
    mode,         \* self.mode
    mode_num,     \* self.mode_num
    version,      \* self.version
    builderCalls, \* number of calls of builder.QRCodeBuilder
    builderArgs,  \* arguments of the last call of builder.QRCodeBuilder
    code,         \* self.code
    exc,          \* the exception that left the constructor
    steps,        \* the steps of __init__ completed so far
    textOut,      \* what builder._text produced
    textRet       \* what text() returned

vars == <<pc, content, argError, argVersion, argMode, data, error, mode, mode_num,
          version, builderCalls, builderArgs, code, exc, steps, textOut, textRet>>

args == <<content, argError, argVersion, argMode>>

NoArgs == [data |-> <<>>, version |-> 0, mode |-> <<>>, error |-> ""]

Init ==
    /\ pc = "new"
    /\ content = [kind |-> "str", text |-> <<>>, int |-> 0]
    /\ argError = <<"H">>
    /\ argVersion = <<>>
    /\ argMode = <<>>
    /\ data = <<>>
    /\ error = ""
    /\ mode = <<>>
    /\ mode_num = 0
    /\ version = 0
    /\ builderCalls = 0
    /\ builderArgs = NoArgs
    /\ code = NoCode
    /\ exc = NoExc
    /\ steps = <<>>
    /\ textOut = NoText
    /\ textRet = NoText

\* QRCode(content, error, version, mode) is called.
Call ==
    /\ pc = "new"
    /\ \E c \in Contents, e \in ErrorArgs, v \in VersionArgs, m \in ModeArgs :
        /\ content' = c
        /\ argError' = e
        /\ argVersion' = v
        /\ argMode' = m
    /\ pc' = "coerce"
    /\ UNCHANGED <<data, error, mode, mode_num, version, builderCalls, builderArgs,
                   code, exc, steps, textOut, textRet>>

\* self.data = str(content)
Coerce ==
    /\ pc = "coerce"
    /\ data' = str(content)
    /\ pc' = "error"
    /\ UNCHANGED <<args, error, mode, mode_num, version, builderCalls, builderArgs,
                   code, exc, steps, textOut, textRet>>

\* self.error = tables.error_level[str(error).upper()], ValueError otherwise.
CheckErrorLevel ==
    /\ pc = "error"
    /\ IF upper(argError) \in DOMAIN error_level
       THEN /\ error' = error_level[upper(argError)]
            /\ steps' = Append(steps, "error_level")
            /\ pc' = "mode"
            /\ exc' = exc
       ELSE /\ exc' = ValueError("InvalidErrorLevel")
            /\ pc' = "raised"
            /\ UNCHANGED <<error, steps>>
    /\ UNCHANGED <<args, data, mode, mode_num, version, builderCalls, builderArgs,
                   code, textOut, textRet>>

KeyError == [type |-> "KeyError", kind |-> "lookup", origin |-> "facade"]

\* The outcome of the mode check of __init__ for the optional mode argument.
\* With a mode given, tables.modes[mode] is looked up whatever the guessed
\* type is (by the first elif when it is binary, by the second otherwise),
\* so that an unknown mode is a KeyError.
ResolveMode(guessed, modeArg) ==
    IF ~TruthyStr(modeArg)
    THEN [mode |-> guessed, exc |-> NoExc]
    ELSE LET m == lower(modeArg[1])
         IN  IF m \notin DOMAIN modes
             THEN [mode |-> <<>>, exc |-> KeyError]
             ELSE IF guessed = BINARY /\ modes[m] # modes[BINARY]
             THEN [mode |-> <<>>, exc |-> ValueError("ModeMismatch")]
             ELSE IF modes[m] = modes[NUMERIC] /\ guessed # NUMERIC
             THEN [mode |-> <<>>, exc |-> ValueError("ModeMismatch")]
             ELSE [mode |-> m, exc |-> NoExc]

\* guessed_content_type = self._detect_content_type() and the mode check.
CheckMode ==
    /\ pc = "mode"
    /\ LET r == ResolveMode(detect_content_type(data), argMode)
       IN  IF r.exc = NoExc
           THEN /\ mode' = r.mode
                /\ mode_num' = modes[r.mode]
                /\ steps' = Append(steps, "mode")
                /\ pc' = "pick"
                /\ exc' = exc
           ELSE /\ exc' = r.exc
                /\ pc' = "raised"
                /\ UNCHANGED <<mode, mode_num, steps>>
    /\ UNCHANGED <<args, data, error, version, builderCalls, builderArgs, code,
                   textOut, textRet>>

\* self.version = self._pick_best_fit()
PickBestFit ==
    /\ pc = "pick"
    /\ LET r == pick_best_fit(data, error, mode_num)
       IN  IF r.exc = NoExc
           THEN /\ version' = r.version
                /\ steps' = Append(steps, "pick_best_fit")
                /\ pc' = "user_version"
                /\ exc' = exc
           ELSE /\ exc' = r.exc
                /\ pc' = "raised"
                /\ UNCHANGED <<version, steps>>
    /\ UNCHANGED <<args, data, error, mode, mode_num, builderCalls, builderArgs,
                   code, textOut, textRet>>

\* CheckUserVersion with the builder invoked before the version is checked.
CheckUserVersion_BuildFirst ==
    /\ pc = "user_version"
    /\ IF TruthyInt(argVersion)
       THEN IF argVersion[1] >= version
            THEN /\ version' = argVersion[1]
                 /\ steps' = Append(steps, "user_version")
                 /\ pc' = "build"
                 /\ UNCHANGED <<exc, builderCalls, builderArgs>>
            ELSE /\ exc' = ValueError("UserVersionTooSmall")
                 /\ pc' = "raised"
                 /\ builderCalls' = builderCalls + 1
                 /\ builderArgs' = [data |-> content, version |-> argVersion[1],
                                    mode |-> mode, error |-> error]
                 /\ UNCHANGED <<version, steps>>
       ELSE /\ steps' = Append(steps, "user_version")
            /\ pc' = "build"
            /\ UNCHANGED <<version, exc, builderCalls, builderArgs>>
    /\ UNCHANGED <<args, data, error, mode, mode_num, code, textOut, textRet>>

\* if version: the user's version replaces the best fit, or is too small.
CheckUserVersion ==
    /\ pc = "user_version"
    /\ IF TruthyInt(argVersion)
       THEN IF argVersion[1] >= version
            THEN /\ version' = argVersion[1]
                 /\ steps' = Append(steps, "user_version")
                 /\ pc' = "build"
                 /\ exc' = exc
            ELSE /\ exc' = ValueError("UserVersionTooSmall")
                 /\ pc' = "raised"
                 /\ UNCHANGED <<version, steps>>
       ELSE /\ steps' = Append(steps, "user_version")
            /\ pc' = "build"
            /\ UNCHANGED <<version, exc>>
    /\ UNCHANGED <<args, data, error, mode, mode_num, builderCalls, builderArgs,
                   code, textOut, textRet>>

\* self.builder = builder.QRCodeBuilder(...); self.code = self.builder.code
Build ==
    /\ pc = "build"
    /\ builderCalls' = builderCalls + 1
    /\ builderArgs' = [data |-> content, version |-> version, mode |-> mode,
                       error |-> error]
    /\ LET r == QRCodeBuilder(content, version, mode, error)
       IN  IF r.exc = NoExc
           THEN /\ code' = r.code
                /\ steps' = Append(steps, "builder")
                /\ pc' = "done"
                /\ exc' = exc
           ELSE /\ exc' = r.exc
                /\ pc' = "raised"
                /\ UNCHANGED <<code, steps>>
    /\ UNCHANGED <<args, data, error, mode, mode_num, version, textOut, textRet>>

\* QRCode.text(): calls builder._text(self.code) and returns nothing.
Text ==
    /\ pc = "done"
    /\ textOut' = builder_text(code)
    /\ textRet' = NoText
    /\ pc' = "text_returned"
    /\ UNCHANGED <<args, data, error, mode, mode_num, version, builderCalls,
                   builderArgs, code, exc, steps>>

Next ==
    \/ Call
    \/ Coerce
    \/ CheckErrorLevel
    \/ CheckMode
    \/ PickBestFit
    \/ CheckUserVersion
    \/ Build
    \/ Text

Spec == Init /\ [][Next]_vars

\* ------------------------------------------------------ properties
\* The content type as documented: numeric for a digit string, else
\* alphanumeric when every uppercased character is in the alphanumeric
\* table, else binary.
DocumentedContentType(s) ==
    IF IsDigitString(s) THEN NUMERIC
    ELSE IF \A i \in DOMAIN s : upper(s)[i] \in ascii_codes_keys
         THEN ALPHANUMERIC
         ELSE BINARY

\* The number of bytes of the UTF-8 encoding of a text.
RECURSIVE Utf8Len(_)
Utf8Len(s) ==
    IF s = <<>> THEN 0
    ELSE (IF Head(s) \in AsciiChars THEN 1 ELSE 2) + Utf8Len(Tail(s))

\* The payload length: the encoded byte count in binary mode, the character
\* count in the other modes.
PayloadLength(s, m) == IF m = modes[BINARY] THEN Utf8Len(s) ELSE Len(s)

Succeeded == pc \in {"done", "text_returned"}

\* The step that followed k completed steps has run.
StepRan(k) == Len(steps) > k \/ (pc = "raised" /\ Len(steps) = k)

RaisedAt(k) == pc = "raised" /\ Len(steps) = k

\* C1: with no mode argument the resolved mode is numeric for a digit
\* string, else alphanumeric when every uppercased character is in the
\* alphanumeric table, else binary.
C1_AutoModeByPriority ==
    (argMode = <<>> /\ Len(steps) >= 2) => mode = DocumentedContentType(data)

\* C2: with no version argument, a successful construction resolves the
\* smallest version of 1..40 whose capacity holds the payload: the capacity
\* of the version is at least the payload length and that of every smaller
\* version (the previous one in particular) is below it.
C2_SmallestFittingVersion ==
    (argVersion = <<>> /\ Succeeded) =>
        LET n == PayloadLength(data, mode_num)
        IN  /\ version \in 1..LastVersion
            /\ data_capacity(version, error, mode_num) >= n
            /\ version > 1 => data_capacity(version - 1, error, mode_num) < n
            /\ \A w \in 1..(version - 1) : data_capacity(w, error, mode_num) < n

\* C2 witness: a binary content for which a version above 1 was chosen.
C2_Witness ==
    /\ argVersion = <<>>
    /\ Succeeded
    /\ mode = BINARY
    /\ version > 1
    /\ Len(data) > 1

\* C3: a supplied mode numeric is accepted exactly for content detected as
\* numeric, alphanumeric exactly for content detected as alphanumeric or
\* numeric, binary always; a rejected mode is a mode-mismatch error and an
\* accepted mode is the resolved mode.
C3_SuppliedModeValidated ==
    (/\ TruthyStr(argMode)
     /\ lower(argMode[1]) \in {NUMERIC, ALPHANUMERIC, BINARY}
     /\ StepRan(1)) =>
        LET m == lower(argMode[1])
            d == DocumentedContentType(data)
            accepted == \/ m = NUMERIC /\ d = NUMERIC
                        \/ m = ALPHANUMERIC /\ d \in {ALPHANUMERIC, NUMERIC}
                        \/ m = BINARY
        IN  IF accepted
            THEN Len(steps) >= 2 /\ mode = m
            ELSE RaisedAt(1) /\ exc = ValueError("ModeMismatch")

\* C4: a supplied version at or above the computed minimum becomes the
\* resolved version, and a supplied version below it (0 included) is a
\* user-version-too-small error.
C4_SuppliedVersionChecked ==
    (argVersion # <<>> /\ StepRan(3)) =>
        IF argVersion[1] >= pick_best_fit(data, error, mode_num).version
        THEN Len(steps) >= 4 /\ version = argVersion[1]
        ELSE RaisedAt(3) /\ exc = ValueError("UserVersionTooSmall")

\* C5: version selection fails with content-too-large exactly when no
\* version of 1..40 holds the payload, and returns a version whenever one
\* does.
C5_TooLargeIffNoVersionFits ==
    StepRan(2) =>
        LET n == PayloadLength(data, mode_num)
            fitsSome == \E v \in 1..LastVersion :
                            data_capacity(v, error, mode_num) >= n
        IN  /\ (RaisedAt(2) /\ exc = ValueError("ContentTooLarge")) <=> ~fitsSome
            /\ fitsSome => Len(steps) >= 3

\* C6: with mode kanji (any letter case) construction fails at the mode
\* check with an unimplemented-mode error, whatever the content: never with
\* a mode mismatch, and neither version selection nor the builder is reached.
C6_KanjiUnimplemented ==
    (TruthyStr(argMode) /\ lower(argMode[1]) = KANJI /\ StepRan(1)) =>
        /\ RaisedAt(1)
        /\ exc.kind = "UnimplementedMode"
        /\ builderCalls = 0

\* C7: text() returns the text the collaborator produced for the matrix,
\* never an empty result.
C7_TextReturnsRepresentation ==
    pc = "text_returned" => (textRet = builder_text(code) /\ textRet # NoText)

\* C8: the builder is invoked at most once, and only after error-level
\* validation, mode validation, version selection and user-version
\* validation succeeded in that order; when one of them raises, the builder
\* was not invoked and no code is stored; on success the builder was invoked
\* exactly once, with the resolved version, mode and error, and the stored
\* code is its result.
C8_BuilderLastAndOnce ==
    /\ builderCalls <= 1
    /\ builderCalls = 1 =>
        /\ Len(steps) >= 4
        /\ SubSeq(steps, 1, 4) =
               <<"error_level", "mode", "pick_best_fit", "user_version">>
    /\ (pc = "raised" /\ exc.origin = "facade") =>
        (builderCalls = 0 /\ code = NoCode /\ Len(steps) < 4)
    /\ pc # "new" /\ ~Succeeded => code = NoCode
    /\ Succeeded =>
        /\ builderCalls = 1
        /\ steps = <<"error_level", "mode", "pick_best_fit", "user_version",
                     "builder">>
        /\ builderArgs = [data |-> content, version |-> version, mode |-> mode,
                          error |-> error]
        /\ code = QRCodeBuilder(content, version, mode, error).code
        /\ code # NoCode

\* C8 witness: a construction with a supplied mode and a supplied version
\* that passed every validation and was built.
C8_Witness ==
    /\ pc = "done"
    /\ TruthyStr(argMode)
    /\ TruthyInt(argVersion)
    /\ builderCalls = 1
    /\ code # NoCode

\* C9: after a successful construction the version handed to the builder
\* and stored on the object is in 1..40, whatever the version argument.
C9_ResolvedVersionInRange ==
    Succeeded =>
        (version \in 1..LastVersion /\ builderArgs.version \in 1..LastVersion)

\* C10: a construction that fails in the facade fails with a value error of
\* one of the documented kinds.
C10_OnlyDocumentedErrors ==
    (pc = "raised" /\ exc.origin = "facade") =>
        /\ exc.type = "ValueError"
        /\ exc.kind \in {"InvalidErrorLevel", "ModeMismatch", "UnimplementedMode",
                         "ContentTooLarge", "UserVersionTooSmall"}

====
